---------------------------- MODULE Spec2Model ----------------------------
(***************************************************************************)
(* taptrack: the error store of src/taptrack/state.py.                     *)
(*                                                                         *)
(* One store instance (AbstractState) over one of two backends,            *)
(* PostgresState or RedisState, is driven by the tasks of one asyncio      *)
(* event loop.  A task runs one store call at a time; every step of the    *)
(* model is the completion of one awaited backend call (a SQL statement,   *)
(* a Redis command, a webhook send) together with the synchronous code     *)
(* that follows it up to the next await.  Tasks interleave only between    *)
(* such steps.                                                             *)
(***************************************************************************)
EXTENDS Integers, Sequences, FiniteSets, TLC

(* Bounds of the model: the store calls started in a run (of either        *)
(* backend, and of the relational backend taken alone), the largest id a   *)
(* command names, and the store calls started when two stores are run side *)
(* by side (each call counts once per store), the put_error calls started *)
(* when the error listener alone drives the store, the calls of a short    *)
(* run, and the put_error calls of a run on exceptions with locals.        *)
MaxOps == 3
MaxPgOps == 2
MaxId == 2
MaxPairOps == 6
MaxPutOps == 3
MaxShortOps == 2
MaxCaptureOps == 2

Procs == {"t1", "t2"}

Backends == {"postgres", "redis"}

(* The id arguments the operator commands pass (known and unknown ids). *)
Ids == 0 .. MaxId

(***************************************************************************)
(* Values.                                                                 *)
(***************************************************************************)
None == [none |-> TRUE]

(* The value True, which RedisState._set_handled returns. *)
True == [bool |-> TRUE]

(* Record.id before the backend assigned one (self.id = None). *)
NoId == -1

(* _dumps / _loads, record.py: JSON text of a value and back. *)
_dumps(obj) == [json |-> obj]

_loads(obj) == obj.json

(* A local variable of a frame: its name and the Python object it holds.   *)
(* An object has a type; text stands for what int(), str(), the custom     *)
(* serializer or repr() make of it, and ok tells whether that call returns *)
(* (a __taptrack_serialize__ or a __repr__ is user code and may raise).    *)
Local(name, type, text, ok) ==
    [name |-> name, value |-> [type |-> type, text |-> text, ok |-> ok]]

(* A frame of a traceback with its f_locals. *)
FrameOf(filename, function, scope) ==
    [filename |-> filename, function |-> function, scope |-> scope]

(* A frame of a traceback, without locals. *)
Frame(filename, function) == FrameOf(filename, function, <<>>)

(* The exceptions the monitored application raises: traceback and args. *)
Exceptions ==
    { [tb |-> <<Frame("main.py", "run"), Frame("a.py", "f")>>, args |-> <<"x">>],
      [tb |-> <<Frame("a.py", "f")>>, args |-> <<"y">>],
      [tb |-> <<Frame("a.py", "g")>>, args |-> <<"x">>],
      [tb |-> <<Frame("a.py", "g")>>, args |-> <<"y">>],
      [tb |-> <<Frame("b.py", "f")>>, args |-> <<"x">>] }

(* Exceptions whose frames hold locals of every kind _default_serialization *)
(* tells apart: registered types, an object with a custom serializer, a    *)
(* module, an object of an unregistered type; the user code of two of them *)
(* raises.                                                                 *)
ScopedExceptions ==
    { [tb |-> <<FrameOf("main.py", "run", <<Local("mod", "module", "os", TRUE)>>),
                FrameOf("a.py", "f", <<Local("n", "int", "1", TRUE),
                                       Local("s", "str", "x", TRUE)>>)>>,
       args |-> <<"x">>],
      [tb |-> <<FrameOf("b.py", "f", <<Local("c", "custom", "{}", TRUE),
                                       Local("o", "object", "<O>", TRUE)>>)>>,
       args |-> <<"x">>],
      [tb |-> <<FrameOf("c.py", "f", <<Local("c", "custom", "{}", FALSE)>>)>>,
       args |-> <<"x">>],
      [tb |-> <<FrameOf("d.py", "f", <<Local("o", "object", "<O>", FALSE)>>)>>,
       args |-> <<"x">>] }

(* The attachments a triggering message carries: none, or one file. *)
NoAttachments == <<>>

Attachments == {NoAttachments, <<"a.png">>}

(* _get_last_frame: follows tb_next to the deepest frame. *)
RECURSIVE _get_last_frame(_)
_get_last_frame(_frame) ==
    IF Len(_frame) > 1 THEN _get_last_frame(Tail(_frame)) ELSE Head(_frame)

(* [str(x) for x in error.args] *)
StrArgs(args) == [i \in DOMAIN args |-> args[i]]

(* ctx.message of a call: the message that triggered the command. *)
CtxMessage(c) ==
    [id |-> c.message, created_at |-> c.message, attachments |-> c.attachments]

(* _serialize_attachments: [] for a message without attachments; with      *)
(* attachments the list is built and the function ends without a return    *)
(* statement, so the value is None.                                        *)
_serialize_attachments(message) ==
    IF message.attachments = <<>> THEN [list |-> <<>>] ELSE None

(* _serialize_message: the dict of a triggering message (its id and its    *)
(* attachments here).                                                      *)
_serialize_message(message) ==
    [id |-> message.id, attachments |-> _serialize_attachments(message)]

(* What a call that raised stands for in a value. *)
Raised == [raised |-> TRUE]

(* VALID_SERIALIZATIONS: the registered types (of those modelled). *)
VALID_SERIALIZATIONS == {"int", "str", "bool"}

(* _default_serialization: a registered type's serializer, else the        *)
(* object's __taptrack_serialize__(), else the module tag, else the tag    *)
(* around repr(obj).  No call is guarded by a try.                         *)
_default_serialization(obj) ==
    IF obj.type \in VALID_SERIALIZATIONS
    THEN [kind |-> obj.type, text |-> obj.text]
    ELSE IF obj.type = "custom"
    THEN IF obj.ok THEN [kind |-> "dict", text |-> obj.text] ELSE Raised
    ELSE IF obj.type = "module"
    THEN [kind |-> "str", text |-> "<module " \o obj.text \o ">"]
    ELSE IF obj.ok
    THEN [kind |-> "str", text |-> "<unserializable " \o obj.text \o ">"]
    ELSE Raised

(* _serialize_frame_scope: every local through _default_serialization. *)
_serialize_frame_scope(scope) ==
    [i \in DOMAIN scope |->
        [name |-> scope[i].name, value |-> _default_serialization(scope[i].value)]]

(* _serialize_tb_frame *)
_serialize_tb_frame(frame) ==
    [filename |-> frame.filename, function |-> frame.function,
     scope |-> _serialize_frame_scope(frame.scope)]

(* _serialize_traceback: one descriptor per frame, outermost first. *)
_serialize_traceback(tb) == [i \in DOMAIN tb |-> _serialize_tb_frame(tb[i])]

(* Record.__init__ raises: a serializer called while the frames are built  *)
(* raised, and nothing between it and the caller of Record() catches.      *)
RecordRaises(error, message) ==
    \E i \in DOMAIN error.tb :
        \E j \in DOMAIN error.tb[i].scope :
            _default_serialization(error.tb[i].scope[j].value) = Raised

(* formatter.format_exception: the lines of the formatted traceback, which *)
(* hold separator lines.                                                   *)
format_exception(error) ==
    <<"Traceback">> \o <<"\n">> \o [i \in DOMAIN error.tb |-> error.tb[i].function]

(* Record.__init__: the snapshot of a first capture. *)
RecordInit(error, message) ==
    LET frames == _serialize_traceback(error.tb)
    IN  [ id |-> NoId,
          stack |-> SelectSeq(format_exception(error), LAMBDA l : l # "\n"),
          args |-> StrArgs(error.args),
          occurred_at |-> message.created_at,
          frames |-> frames,
          tracking_filename |-> frames[Len(frames)].filename,
          tracking_function |-> frames[Len(frames)].function,
          occurrences |-> 1,
          handled |-> FALSE,
          messages |-> <<_serialize_message(message)>> ]

(* Record._to_dict(strict=False): the row handed to the INSERT. *)
ToDictLoose(record) ==
    [ id |-> record.id,
      stack |-> _dumps(record.stack),
      handled |-> record.handled,
      frames |-> _dumps(record.frames),
      args |-> record.args,
      occurred_at |-> record.occurred_at,
      occurrences |-> record.occurrences,
      messages |-> [i \in DOMAIN record.messages |-> _dumps(record.messages[i])],
      tracking_filename |-> record.tracking_filename,
      tracking_function |-> record.tracking_function ]

(* Record.from_psql *)
from_psql(data) ==
    [ id |-> data.id,
      handled |-> data.handled,
      stack |-> _loads(data.stack),
      frames |-> _loads(data.frames),
      args |-> data.args,
      occurrences |-> data.occurrences,
      occurred_at |-> data.occurred_at,
      messages |-> [i \in DOMAIN data.messages |-> _loads(data.messages[i])],
      tracking_filename |-> data.tracking_filename,
      tracking_function |-> data.tracking_function ]

(***************************************************************************)
(* State.                                                                  *)
(***************************************************************************)
VARIABLES
    backend,      \* TAPTRACK_STORAGE: which State class the store is
    hook,         \* AbstractState.hook is set (TAPTRACK_WEBHOOK_URL)
    conn,         \* self.conn: 0 is None, k the k-th connection made
    connsMade,    \* connections created so far
    tableExists,  \* postgres: the schema has been executed
    pgRows,       \* postgres: table taptrack_errors, id -> row
    pgSeq,        \* postgres: the serial sequence of column id
    rdHashes,     \* redis: TAPTRACK_RECORD:<id> -> hash (field -> value)
    rdUnhandled,  \* redis: the set TAPTRACK_UNHANDLED
    rdKeys,       \* redis: string keys (the index keys) -> value
    rdNextId,     \* redis: TAPTRACK_INDEX_NEXTID
    pc,           \* per task: the await it is suspended at
    call,         \* per task: the store call it runs and its arguments
    local,        \* per task: the local variables of the call
    result,       \* per task: what the call returned or raised
    opsStarted,   \* store calls started so far
    opsLimit,     \* store calls the run makes at most
    oneAtATime,   \* the callers start a call only when none is in progress
    mirror,       \* two stores, one per backend, are given the same calls
    standby,      \* mirror: conn and connsMade of the store not in use
    inputs,       \* the exceptions and message attachments the run draws from
    recurrences   \* history: per record id, the add-occurrences completed

pgVars == <<tableExists, pgRows, pgSeq>>

rdVars == <<rdHashes, rdUnhandled, rdKeys, rdNextId>>

connVars == <<conn, connsMade>>

envVars == <<backend, hook, opsLimit, oneAtATime, mirror, standby, inputs>>

histVars == <<recurrences>>

vars == <<backend, hook, conn, connsMade, tableExists, pgRows, pgSeq,
          rdHashes, rdUnhandled, rdKeys, rdNextId, pc, call, local, result,
          opsStarted, opsLimit, oneAtATime, mirror, standby, inputs,
          recurrences>>

NoCall == [op |-> "none", error |-> None, message |-> 0, record_id |-> 0,
           state |-> FALSE, attachments |-> NoAttachments]

(* exists: put_error's lookup result; data, msgs, r_id, record: the        *)
(* locals of the backend method; unhandled, resp: those of                 *)
(* get_all_unhandled; ret: the value the call returns once its webhook     *)
(* send is over; stored: the backend's copy right after this call's write  *)
(* (history, read by no action); sent: the text handed to hook.send.       *)
NoLocal == [exists |-> None, data |-> None, record |-> None,
            unhandled |-> {}, resp |-> {}, ret |-> None,
            stored |-> None, sent |-> None]

Pending == [kind |-> "pending", value |-> None]

Return(value) == [kind |-> "return", value |-> value]

(* The value of a raise is the exception, a record like every other value. *)
Raise(error) == [kind |-> "raise", value |-> [exception |-> error]]

(* The store after construction, over one of backends, no connection made *)
(* yet, the database empty.                                                *)
(* What the monitored application raises and sends in a run: exceptions    *)
(* without locals and plain messages, or exceptions with locals and        *)
(* messages with or without attachments.                                   *)
PlainInputs == [errors |-> Exceptions, attachments |-> {NoAttachments}]

(* The failures of one file: the exceptions of a.py raised in g or with    *)
(* args ['x'] (two that share no key, one that shares a key with each).    *)
FewInputs ==
    [errors |-> { e \in Exceptions :
                    /\ _get_last_frame(e.tb).filename = "a.py"
                    /\ \/ _get_last_frame(e.tb).function = "g"
                       \/ e.args = <<"x">> },
     attachments |-> {NoAttachments}]

(* Two failures of one file that share no fingerprint key besides the     *)
(* file name: f raising with args ['x'] and g raising with args ['y'].     *)
PutInputs ==
    [errors |-> { e \in Exceptions :
                    /\ _get_last_frame(e.tb).filename = "a.py"
                    /\ (_get_last_frame(e.tb).function = "f") <=> (e.args = <<"x">>) },
     attachments |-> {NoAttachments}]

ScopedInputs == [errors |-> ScopedExceptions, attachments |-> Attachments]

InitStore(backends, limit, serial, pair, input) ==
    /\ inputs = input
    /\ recurrences = <<>>
    /\ backend \in backends
    /\ opsLimit = limit
    /\ oneAtATime = serial
    /\ mirror = pair
    /\ standby = <<0, 0>>
    /\ hook \in BOOLEAN
    /\ conn = 0
    /\ connsMade = 0
    /\ tableExists = FALSE
    /\ pgRows = <<>>
    /\ pgSeq = 0
    /\ rdHashes = <<>>
    /\ rdUnhandled = {}
    /\ rdKeys = <<>>
    /\ rdNextId = 0
    /\ pc = [p \in Procs |-> "idle"]
    /\ call = [p \in Procs |-> NoCall]
    /\ local = [p \in Procs |-> NoLocal]
    /\ result = [p \in Procs |-> Pending]
    /\ opsStarted = 0

Init == InitStore(Backends, MaxOps, FALSE, FALSE, PlainInputs)

(***************************************************************************)
(* The calls of the store's interface, as the command layer and the error  *)
(* listener of cog.py start them.                                          *)
(***************************************************************************)
Running(p) == pc[p] \notin {"idle", "done"}

(* The first await of a call: the lazy connect when self.conn is None,     *)
(* otherwise the call's first backend command.                             *)
FirstStep(op) ==
    IF backend = "postgres"
    THEN CASE op = "put_error" -> "_get_by_value"
           [] op = "get_error" -> "_get"
           [] op = "set_handled" -> "_set_handled"
           [] OTHER -> "get_all_unhandled"
    ELSE CASE op = "put_error" -> "get_fnfn"
           [] op = "get_error" -> "hgetall"
           [] op = "set_handled" -> "hset_handled"
           [] OTHER -> "smembers"

(* Two stores side by side: the call c on the key-value store that        *)
(* corresponds to the call just made on the relational store.  The serial  *)
(* column numbers the records from 1, INCR - 1 from 0.                     *)
Mirror(c) ==
    [c EXCEPT !.record_id = IF c.op \in {"get_error", "set_handled"}
                            THEN @ - 1 ELSE @,
              !.message = 0]

(* Two stores side by side: task t1 gives a call to the relational store,  *)
(* then task t2 gives the corresponding call to the key-value store.       *)
Turn(p, c) ==
    IF backend = "postgres"
    THEN p = "t1" /\ opsStarted % 2 = 0
           /\ Mirror(c).record_id \in Ids
    ELSE p = "t2" /\ opsStarted % 2 = 1
           /\ [c EXCEPT !.message = 0] = Mirror(call["t1"])

Begin(p, c) ==
    /\ ~Running(p)
    /\ opsStarted < opsLimit
    /\ oneAtATime => \A q \in Procs : ~Running(q)
    /\ mirror => Turn(p, c)
    /\ opsStarted' = opsStarted + 1
    /\ call' = [call EXCEPT ![p] = c]
    /\ local' = [local EXCEPT ![p] = NoLocal]
    /\ result' = [result EXCEPT ![p] = Pending]
    /\ pc' = [pc EXCEPT ![p] = IF conn = 0 THEN "connect" ELSE FirstStep(c.op)]
    /\ UNCHANGED <<envVars, histVars, connVars, pgVars, rdVars>>

CallPutError(p) ==
    \E error \in inputs.errors, attachments \in inputs.attachments :
        Begin(p, [NoCall EXCEPT !.op = "put_error", !.error = error,
                                !.message = opsStarted + 1,
                                !.attachments = attachments])

CallGetError(p) ==
    \E record_id \in Ids :
        Begin(p, [NoCall EXCEPT !.op = "get_error", !.record_id = record_id])

CallSetHandled(p) ==
    \E record_id \in Ids, state \in BOOLEAN :
        Begin(p, [NoCall EXCEPT !.op = "set_handled", !.record_id = record_id,
                                !.state = state])

CallGetAllUnhandled(p) ==
    Begin(p, [NoCall EXCEPT !.op = "get_all_unhandled"])

(* The add-occurrence of a put_error on record record_id is complete. *)
Recurred(record_id) ==
    recurrences' =
        (record_id :> (IF record_id \in DOMAIN recurrences
                       THEN recurrences[record_id] + 1 ELSE 1)) @@ recurrences

(* A call ends: it returns value, or raises. *)
Finish(p, loc, res) ==
    /\ pc' = [pc EXCEPT ![p] = "done"]
    /\ local' = [local EXCEPT ![p] = loc]
    /\ result' = [result EXCEPT ![p] = res]

(* put_error, miss: Record(error, ctx.message, ...) is built before the    *)
(* await of _put (at pc next); an exception of its serializers ends the    *)
(* call.                                                                   *)
Capture(p, next) ==
    IF RecordRaises(call[p].error, CtxMessage(call[p]))
    THEN Finish(p, local[p], Raise("SerializerError"))
    ELSE /\ local' = [local EXCEPT ![p].exists = None,
                                   ![p].record =
                            RecordInit(call[p].error, CtxMessage(call[p]))]
         /\ pc' = [pc EXCEPT ![p] = next]
         /\ UNCHANGED result

(* webhook_put_error / webhook_put_occurrence / webhook_put_handled: with  *)
(* no hook they return at once and the call returns value; with a hook the *)
(* call awaits hook.send(text) before it returns.                          *)
Notify(p, loc, text, value) ==
    IF hook
    THEN /\ pc' = [pc EXCEPT ![p] = "hook.send"]
         /\ local' = [local EXCEPT ![p] = [loc EXCEPT !.ret = value, !.sent = text]]
         /\ UNCHANGED result
    ELSE Finish(p, loc, Return(value))

PutErrorText(record) == [kind |-> "new", id |-> record.id]

PutOccurrenceText(record) ==
    [kind |-> "occurrence", id |-> record.id, was_handled |-> record.handled,
     times |-> record.occurrences + 1]

PutHandledText(record, state) ==
    [kind |-> "handled", id |-> record.id, state |-> state]

(* webhook_send: await self.hook.send(...) completes. *)
WebhookSent(p) ==
    /\ pc[p] = "hook.send"
    /\ Finish(p, local[p], Return(local[p].ret))
    /\ UNCHANGED <<envVars, histVars, connVars, pgVars, rdVars, call, opsStarted>>

(* webhook_send: self.hook.send(...) raises (the sink is unreachable);     *)
(* nothing on the way up to the caller catches it.                        *)
WebhookFails(p) ==
    /\ pc[p] = "hook.send"
    /\ Finish(p, local[p], Raise("HTTPException"))
    /\ UNCHANGED <<envVars, histVars, connVars, pgVars, rdVars, call, opsStarted>>

(***************************************************************************)
(* PostgresState.                                                          *)
(***************************************************************************)
PgPcs == {"_get_by_value", "_get", "_put", "_add_occurrence", "_set_handled",
          "get_all_unhandled"}

(* do_query: asyncpg.connect returned; self.conn is assigned and the       *)
(* schema is sent.                                                         *)
PgConnect(p) ==
    /\ backend = "postgres"
    /\ pc[p] = "connect"
    /\ conn' = connsMade + 1
    /\ connsMade' = connsMade + 1
    /\ pc' = [pc EXCEPT ![p] = "schema"]
    /\ UNCHANGED <<envVars, histVars, pgVars, rdVars, call, local, result, opsStarted>>

(* do_query: self.conn.execute(self.schema) returned. *)
PgSchema(p) ==
    /\ backend = "postgres"
    /\ pc[p] = "schema"
    /\ tableExists' = TRUE
    /\ pc' = [pc EXCEPT ![p] = FirstStep(call[p].op)]
    /\ UNCHANGED <<envVars, histVars, connVars, pgRows, pgSeq, rdVars, call, local, result,
                   opsStarted>>

(* do_query by a task that found self.conn set while another task was      *)
(* still executing the schema: the statement fails, the table is missing.  *)
PgUndefinedTable(p) ==
    /\ backend = "postgres"
    /\ pc[p] \in PgPcs
    /\ ~tableExists
    /\ Finish(p, local[p], Raise("UndefinedTableError"))
    /\ UNCHANGED <<envVars, histVars, connVars, pgVars, rdVars, call, opsStarted>>

(* The rows the SELECT of _get_by_value matches. *)
PgMatching(filename, function, args) ==
    { i \in DOMAIN pgRows :
        /\ pgRows[i].tracking_filename = filename
        /\ \/ pgRows[i].tracking_function = function
           \/ pgRows[i].args = args }

(* put_error, first await: _get_by_value.  The SELECT has no ORDER BY, so  *)
(* data[0] is any of the matching rows.                                    *)
PgGetByValue(p) ==
    /\ backend = "postgres"
    /\ pc[p] = "_get_by_value"
    /\ tableExists
    /\ LET frame == _get_last_frame(call[p].error.tb)
           data == PgMatching(frame.filename, frame.function,
                              StrArgs(call[p].error.args))
       IN  IF data = {}
           THEN Capture(p, "_put")
           ELSE \E i \in data :
                   /\ local' = [local EXCEPT ![p].exists = from_psql(pgRows[i])]
                   /\ pc' = [pc EXCEPT ![p] = "_add_occurrence"]
                   /\ UNCHANGED result
    /\ UNCHANGED <<envVars, histVars, connVars, pgVars, rdVars, call, opsStarted>>

(* Mutation of PgUniqueViolation: the table without its unique constraint, *)
(* every INSERT is accepted.                                               *)
PgUniqueViolation_NoConstraint(row) == row.id # row.id

(* unique (tracking_filename, tracking_function, args) of the schema. *)
PgUniqueViolation(row) ==
    \E i \in DOMAIN pgRows :
        /\ pgRows[i].tracking_filename = row.tracking_filename
        /\ pgRows[i].tracking_function = row.tracking_function
        /\ pgRows[i].args = row.args

(* put_error, miss: _put.  The INSERT draws the next serial id, then is    *)
(* rejected by the unique constraint (the id is spent) or stores the row.  *)
PgPut(p) ==
    /\ backend = "postgres"
    /\ pc[p] = "_put"
    /\ tableExists
    /\ LET serial == ToDictLoose(local[p].record)
           record_id == pgSeq + 1
           row == [serial EXCEPT !.id = record_id]
       IN  /\ pgSeq' = record_id
           /\ IF PgUniqueViolation(serial)
              THEN /\ Finish(p, local[p], Raise("UniqueViolationError"))
                   /\ UNCHANGED pgRows
              ELSE /\ pgRows' = (record_id :> row) @@ pgRows
                   /\ LET record == [local[p].record EXCEPT !.id = record_id]
                      IN  Notify(p, [local[p] EXCEPT !.record = record,
                                                     !.stored = from_psql(row)],
                                 PutErrorText(record), record)
    /\ UNCHANGED <<envVars, histVars, connVars, tableExists, rdVars, call, opsStarted>>

(* Mutation of PgAddOccurrenceRow: the UPDATE also moves occurred_at to    *)
(* the recurrence (the id of its message stands for its time).             *)
PgAddOccurrenceRow_MovesOccurredAt(row, message) ==
    [row EXCEPT !.occurrences = @ + 1,
                !.messages = Append(@, _dumps(message)),
                !.handled = FALSE,
                !.occurred_at = message.id]

(* The UPDATE of _add_occurrence, one statement. *)
PgAddOccurrenceRow(row, message) ==
    [row EXCEPT !.occurrences = @ + 1,
                !.messages = Append(@, _dumps(message)),
                !.handled = FALSE]

(* put_error, hit: _add_occurrence, then the notification about exists,    *)
(* the record as it was read by _get_by_value, which is also returned.     *)
PgAddOccurrence(p) ==
    /\ backend = "postgres"
    /\ pc[p] = "_add_occurrence"
    /\ tableExists
    /\ LET exists == local[p].exists
           row == PgAddOccurrenceRow(pgRows[exists.id],
                                     _serialize_message(CtxMessage(call[p])))
       IN  /\ pgRows' = [pgRows EXCEPT ![exists.id] = row]
           /\ Recurred(exists.id)
           /\ Notify(p, [local[p] EXCEPT !.stored = from_psql(row)],
                     PutOccurrenceText(exists), exists)
    /\ UNCHANGED <<envVars, connVars, tableExists, pgSeq, rdVars, call, opsStarted>>

(* get_error: _get. *)
PgGet(p) ==
    /\ backend = "postgres"
    /\ pc[p] = "_get"
    /\ tableExists
    /\ Finish(p, local[p],
              IF call[p].record_id \in DOMAIN pgRows
              THEN Return(from_psql(pgRows[call[p].record_id]))
              ELSE Return(None))
    /\ UNCHANGED <<envVars, histVars, connVars, pgVars, rdVars, call, opsStarted>>

(* set_handled: _set_handled, an UPDATE that returns the row, then the     *)
(* notification when a row came back.                                      *)
PgSetHandled(p) ==
    /\ backend = "postgres"
    /\ pc[p] = "_set_handled"
    /\ tableExists
    /\ LET record_id == call[p].record_id
       IN  IF record_id \in DOMAIN pgRows
           THEN LET row == [pgRows[record_id] EXCEPT !.handled = call[p].state]
                    rec == from_psql(row)
                IN  /\ pgRows' = [pgRows EXCEPT ![record_id] = row]
                    /\ Notify(p, [local[p] EXCEPT !.stored = rec],
                              PutHandledText(rec, call[p].state), rec)
           ELSE /\ Finish(p, local[p], Return(None))
                /\ UNCHANGED pgRows
    /\ UNCHANGED <<envVars, histVars, connVars, tableExists, pgSeq, rdVars, call, opsStarted>>

(* get_all_unhandled: one SELECT ... WHERE handled = false.  The list is   *)
(* kept as the set of its records (the rows come in no stated order).      *)
PgGetAllUnhandled(p) ==
    /\ backend = "postgres"
    /\ pc[p] = "get_all_unhandled"
    /\ tableExists
    /\ Finish(p, local[p],
              Return({ from_psql(pgRows[i]) :
                         i \in { j \in DOMAIN pgRows : pgRows[j].handled = FALSE } }))
    /\ UNCHANGED <<envVars, histVars, connVars, pgVars, rdVars, call, opsStarted>>

PgStep(p) ==
    \/ PgConnect(p)
    \/ PgSchema(p)
    \/ PgGetByValue(p)
    \/ PgPut(p)
    \/ PgAddOccurrence(p)
    \/ PgGet(p)
    \/ PgSetHandled(p)
    \/ PgGetAllUnhandled(p)

(***************************************************************************)
(* RedisState.                                                             *)
(***************************************************************************)
(* What the server keeps and hands back: bytes. *)
Encode(value) == [bytes |-> value]

Decode(data) == data.bytes

(* str(args) of a list of strings: ['x', 'y'] *)
RECURSIVE StrItems(_)
StrItems(args) ==
    IF args = <<>> THEN ""
    ELSE "'" \o Head(args) \o "'" \o (IF Len(args) > 1 THEN ", " ELSE "")
             \o StrItems(Tail(args))

StrList(args) == "[" \o StrItems(args) \o "]"

(* The index keys _put writes, lines 348 and 349. *)
PutKeyFunction(record) ==
    "TAPTRACK_INDEX:FNFN:" \o record.tracking_filename \o "//"
        \o record.tracking_function

PutKeyArgs(record) ==
    "TAPTRACK_INDEX:FNAR:" \o record.tracking_filename \o "//"
        \o StrList(record.args)

(* The index keys _get_by_value reads, lines 324 and 328. *)
GetKeyFunction(frame) ==
    "TAPTRACK_INDEX:FNFN:" \o frame.filename \o "//" \o frame.function

GetKeyArgs(frame, args) ==
    "TAPTRACK_INDEX:FNFN:" \o frame.filename \o "//" \o StrList(args)

(* Record._to_dict(strict=True), as HMSET stores it. *)
ToDictStrict(record) ==
    [ id |-> Encode(record.id),
      stack |-> Encode(_dumps(record.stack)),
      handled |-> Encode(IF record.handled THEN 1 ELSE 0),
      frames |-> Encode(_dumps(record.frames)),
      args |-> Encode(_dumps(record.args)),
      occurred_at |-> Encode([iso |-> record.occurred_at]),
      occurrences |-> Encode(record.occurrences),
      messages |-> Encode(_dumps([i \in DOMAIN record.messages |->
                                     _dumps(record.messages[i])])),
      tracking_filename |-> Encode(record.tracking_filename),
      tracking_function |-> Encode(record.tracking_function) ]

RecordFields == {"id", "stack", "handled", "frames", "args", "occurred_at",
                 "occurrences", "messages", "tracking_filename",
                 "tracking_function"}

(* Record.from_json reads every field by name: a missing one is a KeyError. *)
FromJsonRaises(data) == ~(RecordFields \subseteq DOMAIN data)

(* isinstance(x, str) of an entry of the decoded messages list. *)
IsStr(x) == "json" \in DOMAIN x

(* Mutation of from_json: the entries of the decoded messages list are     *)
(* kept as they are stored, JSON text or dict, and none is decoded.        *)
from_json_MessagesNotDecoded(data) ==
    LET messages == _loads(Decode(data.messages))
    IN  [ id |-> Decode(data.id),
          handled |-> Decode(data.handled) # 0,
          stack |-> _loads(Decode(data.stack)),
          frames |-> _loads(Decode(data.frames)),
          args |-> _loads(Decode(data.args)),
          occurrences |-> Decode(data.occurrences),
          occurred_at |-> Decode(data.occurred_at).iso,
          messages |-> messages,
          tracking_filename |-> Decode(data.tracking_filename),
          tracking_function |-> Decode(data.tracking_function) ]

(* Record.from_json of the hash HGETALL returned. *)
from_json(data) ==
    LET messages == _loads(Decode(data.messages))
    IN  [ id |-> Decode(data.id),
          handled |-> Decode(data.handled) # 0,
          stack |-> _loads(Decode(data.stack)),
          frames |-> _loads(Decode(data.frames)),
          args |-> _loads(Decode(data.args)),
          occurrences |-> Decode(data.occurrences),
          occurred_at |-> Decode(data.occurred_at).iso,
          messages |-> [i \in DOMAIN messages |->
                           IF IsStr(messages[i]) THEN _loads(messages[i])
                           ELSE messages[i]],
          tracking_filename |-> Decode(data.tracking_filename),
          tracking_function |-> Decode(data.tracking_function) ]

(* HGETALL: the hash, empty when the key does not exist. *)
HGetAll(record_id) ==
    IF record_id \in DOMAIN rdHashes THEN rdHashes[record_id] ELSE <<>>

(* HSET of one field: creates the hash when the key does not exist. *)
HSet(record_id, name, value) ==
    (record_id :> ((name :> value) @@ HGetAll(record_id))) @@ rdHashes

(* _connect: aioredis.create_redis_pool returned; self.conn is assigned. *)
RdConnect(p) ==
    /\ backend = "redis"
    /\ pc[p] = "connect"
    /\ conn' = connsMade + 1
    /\ connsMade' = connsMade + 1
    /\ pc' = [pc EXCEPT ![p] = FirstStep(call[p].op)]
    /\ UNCHANGED <<envVars, histVars, pgVars, rdVars, call, local, result, opsStarted>>

(* _get_by_value: GET of the file name + function name key. *)
RdGetFnFn(p) ==
    /\ backend = "redis"
    /\ pc[p] = "get_fnfn"
    /\ LET v == GetKeyFunction(_get_last_frame(call[p].error.tb))
       IN  IF v \in DOMAIN rdKeys
           THEN /\ local' = [local EXCEPT ![p].data = rdKeys[v]]
                /\ pc' = [pc EXCEPT ![p] = "hgetall_record"]
           ELSE /\ pc' = [pc EXCEPT ![p] = "get_fnfn_args"]
                /\ UNCHANGED local
    /\ UNCHANGED <<envVars, histVars, connVars, pgVars, rdVars, call, result, opsStarted>>

(* _get_by_value: GET of the file name + args key; on a miss put_error     *)
(* builds the Record and enters _put.                                      *)
RdGetFnAr(p) ==
    /\ backend = "redis"
    /\ pc[p] = "get_fnfn_args"
    /\ LET v == GetKeyArgs(_get_last_frame(call[p].error.tb),
                           StrArgs(call[p].error.args))
       IN  IF v \in DOMAIN rdKeys
           THEN /\ local' = [local EXCEPT ![p].data = rdKeys[v]]
                /\ pc' = [pc EXCEPT ![p] = "hgetall_record"]
                /\ UNCHANGED result
           ELSE Capture(p, "incr")
    /\ UNCHANGED <<envVars, histVars, connVars, pgVars, rdVars, call, opsStarted>>

(* _get_by_value: HGETALL of the record the index names, and from_json. *)
RdGetRecord(p) ==
    /\ backend = "redis"
    /\ pc[p] = "hgetall_record"
    /\ LET data == HGetAll(Decode(local[p].data))
       IN  IF FromJsonRaises(data)
           THEN Finish(p, local[p], Raise("KeyError"))
           ELSE /\ local' = [local EXCEPT ![p].exists = from_json(data)]
                /\ pc' = [pc EXCEPT ![p] = "hincrby"]
                /\ UNCHANGED result
    /\ UNCHANGED <<envVars, histVars, connVars, pgVars, rdVars, call, opsStarted>>

(* Mutation of RdHIncrBy: the counter written back from the value the      *)
(* lookup read (HSET occurrences exists.occurrences + 1) instead of         *)
(* incremented in place.                                                   *)
RdHIncrBy_ReadModifyWrite(p) ==
    /\ backend = "redis"
    /\ pc[p] = "hincrby"
    /\ rdHashes' = HSet(local[p].exists.id, "occurrences",
                        Encode(local[p].exists.occurrences + 1))
    /\ pc' = [pc EXCEPT ![p] = "hget_messages"]
    /\ UNCHANGED <<envVars, histVars, connVars, pgVars, rdUnhandled, rdKeys,
                   rdNextId, call, local, result, opsStarted>>

(* _add_occurrence: HINCRBY occurrences 1. *)
RdHIncrBy(p) ==
    /\ backend = "redis"
    /\ pc[p] = "hincrby"
    /\ LET record_id == local[p].exists.id
       IN  rdHashes' = HSet(record_id, "occurrences",
                 Encode(IF "occurrences" \in DOMAIN HGetAll(record_id)
                        THEN Decode(HGetAll(record_id).occurrences) + 1
                        ELSE 1))
    /\ pc' = [pc EXCEPT ![p] = "hget_messages"]
    /\ UNCHANGED <<envVars, histVars, connVars, pgVars, rdUnhandled, rdKeys, rdNextId,
                   call, local, result, opsStarted>>

(* _add_occurrence: HGET messages; the list is decoded and the new message *)
(* (a dict, not its JSON text) appended, in the task's memory.             *)
RdHGetMessages(p) ==
    /\ backend = "redis"
    /\ pc[p] = "hget_messages"
    /\ LET msgs == HGetAll(local[p].exists.id).messages
           data == _loads(Decode(msgs))
       IN  local' = [local EXCEPT ![p].data =
                        Append(data, _serialize_message(CtxMessage(call[p])))]
    /\ pc' = [pc EXCEPT ![p] = "hset_messages"]
    /\ UNCHANGED <<envVars, histVars, connVars, pgVars, rdVars, call, result, opsStarted>>

(* _add_occurrence: HSET messages; then put_error notifies about exists    *)
(* and returns it.                                                         *)
RdHSetMessages(p) ==
    /\ backend = "redis"
    /\ pc[p] = "hset_messages"
    /\ LET exists == local[p].exists
           hashes == HSet(exists.id, "messages", Encode(_dumps(local[p].data)))
       IN  /\ rdHashes' = hashes
           /\ Recurred(exists.id)
           /\ Notify(p, [local[p] EXCEPT !.stored = from_json(hashes[exists.id])],
                     PutOccurrenceText(exists), exists)
    /\ UNCHANGED <<envVars, connVars, pgVars, rdUnhandled, rdKeys, rdNextId,
                   call, opsStarted>>

(* Mutation of RdIncr: the new id taken from the number of record hashes   *)
(* stored instead of from the atomic counter.                              *)
RdIncr_CountRecords(p) ==
    /\ backend = "redis"
    /\ pc[p] = "incr"
    /\ rdNextId' = rdNextId + 1
    /\ local' = [local EXCEPT ![p].record.id = Cardinality(DOMAIN rdHashes)]
    /\ pc' = [pc EXCEPT ![p] = "hmset"]
    /\ UNCHANGED <<envVars, histVars, connVars, pgVars, rdHashes, rdUnhandled,
                   rdKeys, call, result, opsStarted>>

(* _put: INCR TAPTRACK_INDEX_NEXTID, minus 1, is the new id. *)
RdIncr(p) ==
    /\ backend = "redis"
    /\ pc[p] = "incr"
    /\ rdNextId' = rdNextId + 1
    /\ local' = [local EXCEPT ![p].record.id = (rdNextId + 1) - 1]
    /\ pc' = [pc EXCEPT ![p] = "hmset"]
    /\ UNCHANGED <<envVars, histVars, connVars, pgVars, rdHashes, rdUnhandled, rdKeys,
                   call, result, opsStarted>>

(* _put: HMSET of every field of the record. *)
RdHMSet(p) ==
    /\ backend = "redis"
    /\ pc[p] = "hmset"
    /\ LET r == ToDictStrict(local[p].record)
           r_id == local[p].record.id
       IN  rdHashes' = (r_id :> (r @@ HGetAll(r_id))) @@ rdHashes
    /\ pc' = [pc EXCEPT ![p] = "sadd"]
    /\ UNCHANGED <<envVars, histVars, connVars, pgVars, rdUnhandled, rdKeys, rdNextId,
                   call, local, result, opsStarted>>

(* _put: SADD TAPTRACK_UNHANDLED. *)
RdSAdd(p) ==
    /\ backend = "redis"
    /\ pc[p] = "sadd"
    /\ rdUnhandled' = rdUnhandled \cup {local[p].record.id}
    /\ pc' = [pc EXCEPT ![p] = "set_fnfn"]
    /\ UNCHANGED <<envVars, histVars, connVars, pgVars, rdHashes, rdKeys, rdNextId,
                   call, local, result, opsStarted>>

(* _put: SET of the file name + function name index key. *)
RdSetFnFn(p) ==
    /\ backend = "redis"
    /\ pc[p] = "set_fnfn"
    /\ rdKeys' = (PutKeyFunction(local[p].record) :> Encode(local[p].record.id))
                     @@ rdKeys
    /\ pc' = [pc EXCEPT ![p] = "set_fnar"]
    /\ UNCHANGED <<envVars, histVars, connVars, pgVars, rdHashes, rdUnhandled, rdNextId,
                   call, local, result, opsStarted>>

(* _put: SET of the file name + args index key; then put_error notifies    *)
(* and returns the record.                                                 *)
RdSetFnAr(p) ==
    /\ backend = "redis"
    /\ pc[p] = "set_fnar"
    /\ rdKeys' = (PutKeyArgs(local[p].record) :> Encode(local[p].record.id))
                     @@ rdKeys
    /\ Notify(p, [local[p] EXCEPT !.stored = from_json(rdHashes[local[p].record.id])],
              PutErrorText(local[p].record), local[p].record)
    /\ UNCHANGED <<envVars, histVars, connVars, pgVars, rdHashes, rdUnhandled, rdNextId,
                   call, opsStarted>>

(* get_error: _get. *)
RdGet(p) ==
    /\ backend = "redis"
    /\ pc[p] = "hgetall"
    /\ LET data == HGetAll(call[p].record_id)
       IN  Finish(p, local[p],
                  IF data = <<>> THEN Return(None)
                  ELSE IF FromJsonRaises(data) THEN Raise("KeyError")
                  ELSE Return(from_json(data)))
    /\ UNCHANGED <<envVars, histVars, connVars, pgVars, rdVars, call, opsStarted>>

(* _set_handled: HSET handled int(state). *)
RdHSetHandled(p) ==
    /\ backend = "redis"
    /\ pc[p] = "hset_handled"
    /\ rdHashes' = HSet(call[p].record_id, "handled",
                        Encode(IF call[p].state THEN 1 ELSE 0))
    /\ pc' = [pc EXCEPT ![p] = IF call[p].state THEN "srem" ELSE "sadd_unhandled"]
    /\ UNCHANGED <<envVars, histVars, connVars, pgVars, rdUnhandled, rdKeys, rdNextId,
                   call, local, result, opsStarted>>

(* _set_handled: SREM or SADD on TAPTRACK_UNHANDLED; it returns True, for  *)
(* which set_handled sends no notification.                                *)
RdSetMembership(p) ==
    /\ backend = "redis"
    /\ \/ /\ pc[p] = "srem"
          /\ rdUnhandled' = rdUnhandled \ {call[p].record_id}
       \/ /\ pc[p] = "sadd_unhandled"
          /\ rdUnhandled' = rdUnhandled \cup {call[p].record_id}
    /\ Finish(p, local[p], Return(True))
    /\ UNCHANGED <<envVars, histVars, connVars, pgVars, rdHashes, rdKeys, rdNextId,
                   call, opsStarted>>

(* get_all_unhandled: SMEMBERS. *)
RdSMembers(p) ==
    /\ backend = "redis"
    /\ pc[p] = "smembers"
    /\ IF rdUnhandled = {}
       THEN Finish(p, local[p], Return({}))
       ELSE /\ local' = [local EXCEPT ![p].unhandled = rdUnhandled,
                                      ![p].resp = {}]
            /\ pc' = [pc EXCEPT ![p] = "hgetall_each"]
            /\ UNCHANGED result
    /\ UNCHANGED <<envVars, histVars, connVars, pgVars, rdVars, call, opsStarted>>

(* get_all_unhandled: HGETALL and from_json of the next listed id (the     *)
(* members come in no stated order); after the last one, the return.       *)
RdGetEach(p) ==
    /\ backend = "redis"
    /\ pc[p] = "hgetall_each"
    /\ \E no \in local[p].unhandled :
          LET data == HGetAll(no)
              left == local[p].unhandled \ {no}
          IN  IF FromJsonRaises(data)
              THEN Finish(p, local[p], Raise("KeyError"))
              ELSE LET resp == local[p].resp \cup {from_json(data)}
                       loc == [local[p] EXCEPT !.unhandled = left, !.resp = resp]
                   IN  IF left = {}
                       THEN Finish(p, loc, Return(resp))
                       ELSE /\ local' = [local EXCEPT ![p] = loc]
                            /\ UNCHANGED <<pc, result>>
    /\ UNCHANGED <<envVars, histVars, connVars, pgVars, rdVars, call, opsStarted>>

RdStep(p) ==
    \/ RdConnect(p)
    \/ RdGetFnFn(p)
    \/ RdGetFnAr(p)
    \/ RdGetRecord(p)
    \/ RdHIncrBy(p)
    \/ RdHGetMessages(p)
    \/ RdHSetMessages(p)
    \/ RdIncr(p)
    \/ RdHMSet(p)
    \/ RdSAdd(p)
    \/ RdSetFnFn(p)
    \/ RdSetFnAr(p)
    \/ RdGet(p)
    \/ RdHSetHandled(p)
    \/ RdSetMembership(p)
    \/ RdSMembers(p)
    \/ RdGetEach(p)

(* The backend-independent steps of AbstractState. *)
ApiStep(p) ==
    \/ CallPutError(p)
    \/ CallGetError(p)
    \/ CallSetHandled(p)
    \/ CallGetAllUnhandled(p)
    \/ WebhookSent(p)
    \/ WebhookFails(p)

(* One step of task p that does not depend on another task's progress. *)
CallStep(p) ==
    \/ ApiStep(p)
    \/ PgStep(p)
    \/ RdStep(p)

Step(p) ==
    \/ CallStep(p)
    \/ PgUndefinedTable(p)

(* The event loop: any task that is ready takes its next step. *)
Next == \E p \in Procs : Step(p)

Spec == Init /\ [][Next]_vars

(* The store driven one call at a time: a call starts only when no other   *)
(* call is in progress (an operator typing commands, errors far apart).    *)
InitSeq == InitStore(Backends, MaxOps, TRUE, FALSE, PlainInputs)

NextSeq == \E p \in Procs : CallStep(p)

SpecSeq == InitSeq /\ [][NextSeq]_vars

(* Two stores, a PostgresState and a RedisState, each with its own         *)
(* connection, given the same calls one at a time: the relational store    *)
(* serves a call, then the key-value store serves the corresponding one.   *)
InitPair == InitStore({"postgres"}, MaxPairOps, TRUE, TRUE, PlainInputs)

(* The other store's turn: its connection state is swapped in. *)
PairSwitch ==
    /\ mirror
    /\ \A q \in Procs : ~Running(q)
    /\ \/ backend = "postgres" /\ opsStarted % 2 = 1
       \/ backend = "redis" /\ opsStarted % 2 = 0
    /\ backend' = IF backend = "postgres" THEN "redis" ELSE "postgres"
    /\ conn' = standby[1]
    /\ connsMade' = standby[2]
    /\ standby' = <<conn, connsMade>>
    /\ UNCHANGED <<hook, opsLimit, oneAtATime, mirror, inputs, histVars, pgVars,
                   rdVars, pc, call, local, result, opsStarted>>

NextPair ==
    \/ \E p \in Procs : CallStep(p)
    \/ PairSwitch

SpecPair == InitPair /\ [][NextPair]_vars

(* The steps of put_error, the only call the error listener makes. *)
PutStep(p) ==
    \/ CallPutError(p)
    \/ WebhookSent(p)
    \/ WebhookFails(p)
    \/ PgConnect(p)
    \/ PgSchema(p)
    \/ PgGetByValue(p)
    \/ PgPut(p)
    \/ PgAddOccurrence(p)
    \/ RdConnect(p)
    \/ RdGetFnFn(p)
    \/ RdGetFnAr(p)
    \/ RdGetRecord(p)
    \/ RdHIncrBy(p)
    \/ RdHGetMessages(p)
    \/ RdHSetMessages(p)
    \/ RdIncr(p)
    \/ RdHMSet(p)
    \/ RdSAdd(p)
    \/ RdSetFnFn(p)
    \/ RdSetFnAr(p)

(* The error listener alone: concurrent put_error calls, no command, for   *)
(* two failures of one file.                                               *)
InitPut == InitStore(Backends, MaxPutOps, FALSE, FALSE, PutInputs)

NextPut ==
    \E p \in Procs :
        \/ PutStep(p)
        \/ PgUndefinedTable(p)

SpecPut == InitPut /\ [][NextPut]_vars

(* A short run of any calls, interleaved, for the failures of one file. *)
InitShort == InitStore(Backends, MaxShortOps, FALSE, FALSE, FewInputs)

SpecShort == InitShort /\ [][Next]_vars

(* put_error calls, one at a time, on exceptions whose frames hold locals  *)
(* and messages with and without attachments.                              *)
InitCapture == InitStore(Backends, MaxCaptureOps, TRUE, FALSE, ScopedInputs)

NextCapture == \E p \in Procs : PutStep(p)

SpecCapture == InitCapture /\ [][NextCapture]_vars

(* The store over PostgresState alone. *)
InitPg == InitStore({"postgres"}, MaxPgOps, FALSE, FALSE, PlainInputs)

NextPg ==
    \E p \in Procs :
        \/ ApiStep(p)
        \/ PgStep(p)
        \/ PgUndefinedTable(p)

SpecPg == InitPg /\ [][NextPg]_vars

(***************************************************************************)
(* What the store holds, read the way get_error reads it.                  *)
(***************************************************************************)
(* The ids of the records created so far. *)
StoredIds ==
    IF backend = "postgres" THEN DOMAIN pgRows
    ELSE { i \in DOMAIN rdHashes : ~FromJsonRaises(rdHashes[i]) }

StoredRecord(i) ==
    IF backend = "postgres" THEN from_psql(pgRows[i]) ELSE from_json(rdHashes[i])

(* The ids get_all_unhandled lists: the rows with handled = false, the     *)
(* members of TAPTRACK_UNHANDLED.                                          *)
ListedIds ==
    IF backend = "postgres"
    THEN { i \in DOMAIN pgRows : pgRows[i].handled = FALSE }
    ELSE rdUnhandled

(* Task p's call ends in this step. *)
Completes(p) == pc[p] # "done" /\ pc'[p] = "done"

(* The deepest frame of the exception of p's put_error. *)
LastFrame(p) == _get_last_frame(call[p].error.tb)

(* The record p's put_error created, if it took the create branch. *)
CreatedBy(p) ==
    IF local[p].exists = None /\ local[p].record # None /\ local[p].record.id # NoId
    THEN {local[p].record.id}
    ELSE {}

(* The dedup key of a record. *)
Triple(r) == <<r.tracking_filename, r.tracking_function, r.args>>

(* p's put_error returned normally in this step. *)
PutErrorReturns(p) ==
    Completes(p) /\ call[p].op = "put_error" /\ result'[p].kind = "return"

(***************************************************************************)
(* Properties.                                                             *)
(***************************************************************************)

(* C1: on either backend, set_handled(id, true) on an existing record      *)
(* leaves it stored with handled = true and get_error returns the stored   *)
(* record; a put_error that then resolves to that record leaves it stored  *)
(* with handled = false and listed by get_all_unhandled.                   *)
C1_RecurrenceResetsHandled ==
    [][\A p \in Procs :
         /\ ( /\ Completes(p)
              /\ call[p].op = "set_handled"
              /\ call[p].state
              /\ call[p].record_id \in StoredIds )
            => (StoredRecord(call[p].record_id).handled)' = TRUE
         /\ ( /\ Completes(p)
              /\ call[p].op = "get_error"
              /\ call[p].record_id \in StoredIds )
            => result'[p] = Return(StoredRecord(call[p].record_id))
         /\ (PutErrorReturns(p) /\ local'[p].exists # None)
            => /\ (StoredRecord(local[p].exists.id).handled)' = FALSE
               /\ (local[p].exists.id \in ListedIds)'
      ]_vars

(* C2: a put_error whose exception has the (filename, function) of a       *)
(* record stored before the call creates no record, resolves to that       *)
(* record, and leaves it with occurrences one higher and messages one      *)
(* entry longer than the call found them.                                  *)
C2_SameFrameIsRecurrence ==
    [][\A p \in Procs :
         PutErrorReturns(p) =>
           \A i \in (StoredIds \ CreatedBy(p))' :
              ( /\ (StoredRecord(i).tracking_filename)' = LastFrame(p).filename
                /\ (StoredRecord(i).tracking_function)' = LastFrame(p).function )
              => /\ local'[p].exists # None
                 /\ local'[p].exists.id = i
                 /\ result'[p].value.id = i
                 /\ (StoredRecord(i).occurrences)' = local'[p].exists.occurrences + 1
                 /\ Len((StoredRecord(i).messages)')
                      = Len(local'[p].exists.messages) + 1
      ]_vars

(* C3: a put_error whose exception has the filename and the stringified    *)
(* args of a record stored before the call, but another function, creates  *)
(* no record and resolves to an existing record that matches it.           *)
C3_SecondaryKeyMatch ==
    [][\A p \in Procs :
         PutErrorReturns(p) =>
           \A i \in (StoredIds \ CreatedBy(p))' :
              ( /\ (StoredRecord(i).tracking_filename)' = LastFrame(p).filename
                /\ (StoredRecord(i).args)' = StrArgs(call[p].error.args)
                /\ (StoredRecord(i).tracking_function)' # LastFrame(p).function )
              => /\ local'[p].exists # None
                 /\ CreatedBy(p)' = {}
                 /\ \/ local'[p].exists.id = i
                    \/ /\ local'[p].exists.tracking_filename = LastFrame(p).filename
                       /\ local'[p].exists.tracking_function = LastFrame(p).function
      ]_vars

(* C4: no two stored records have the same (tracking_filename,             *)
(* tracking_function, args).                                               *)
C4_OneRecordPerTriple ==
    \A i, j \in StoredIds :
        i # j => Triple(StoredRecord(i)) # Triple(StoredRecord(j))

(* The rows that hold the dedup key t. *)
PgRowsOf(t) == { i \in DOMAIN pgRows : Triple(pgRows[i]) = t }

(* C5: postgres: of the put_error calls that missed the lookup for one     *)
(* failure, the table never holds more than one row for it; a call whose   *)
(* INSERT was rejected ends raising the constraint's error, with no id     *)
(* assigned and the one row being another call's; a call that got past     *)
(* its INSERT is the one whose row is stored.                              *)
C5_UniqueIndexRejectsSecondInsert ==
    backend = "postgres" =>
      \A p \in Procs :
        (call[p].op = "put_error" /\ local[p].record # None) =>
          LET rows == PgRowsOf(Triple(local[p].record))
          IN  /\ Cardinality(rows) <= 1
              /\ (pc[p] = "done" /\ result[p] = Raise("UniqueViolationError"))
                 => /\ Cardinality(rows) = 1
                    /\ local[p].record.id = NoId
                    /\ \A i \in rows : pgRows[i].occurred_at # call[p].message
              /\ ( /\ pc[p] \in {"hook.send", "done"}
                   /\ result[p] # Raise("UniqueViolationError") )
                 => /\ rows = {local[p].record.id}
                    /\ \A i \in rows : pgRows[i].occurred_at = call[p].message

(* C5 happens: two calls missed the lookup for the same failure, one       *)
(* stored its row and returned, the other was rejected.                    *)
C5_Witness ==
    /\ backend = "postgres"
    /\ \E p, q \in Procs :
          /\ p # q
          /\ call[p].op = "put_error" /\ call[q].op = "put_error"
          /\ local[p].record # None /\ local[q].record # None
          /\ Triple(local[p].record) = Triple(local[q].record)
          /\ pc[p] = "done" /\ result[p].kind = "return"
          /\ pc[q] = "done" /\ result[q] = Raise("UniqueViolationError")

(* Two stores side by side: both have served the same calls. *)
PairSettled ==
    /\ mirror
    /\ opsStarted > 0
    /\ opsStarted % 2 = 0
    /\ \A q \in Procs : pc[q] = "done"

(* The records the key-value store holds complete. *)
RdStoredIds == { i \in DOMAIN rdHashes : ~FromJsonRaises(rdHashes[i]) }

(* C11: two stores, one per backend, given the same calls one at a time:   *)
(* after each call served by both, a put_error was a hit on both or a miss *)
(* on both, a hit resolved to corresponding records (the k-th created of   *)
(* each store), and corresponding records have equal occurrences, handled  *)
(* flag and number of messages.                                            *)
C11_BackendsEquivalent ==
    PairSettled =>
      /\ call["t1"].op = "put_error" =>
            /\ (local["t1"].exists = None) <=> (local["t2"].exists = None)
            /\ (local["t1"].exists # None /\ local["t2"].exists # None)
                 => local["t1"].exists.id = local["t2"].exists.id + 1
      /\ \A j \in RdStoredIds : j + 1 \in DOMAIN pgRows
      /\ \A i \in DOMAIN pgRows :
            /\ i - 1 \in RdStoredIds
            /\ LET a == from_psql(pgRows[i])
                   b == from_json(rdHashes[i - 1])
               IN  /\ a.occurrences = b.occurrences
                   /\ a.handled = b.handled
                   /\ Len(a.messages) = Len(b.messages)

(* C6: every stored record has as many messages as occurrences, in every   *)
(* state.                                                                  *)
C6_MessagesMatchOccurrences ==
    \A i \in StoredIds :
        Len(StoredRecord(i).messages) = StoredRecord(i).occurrences

(* C7: get_all_unhandled returns no record whose handled flag is true. *)
C7_UnhandledListHasNoHandled ==
    \A p \in Procs :
        ( /\ pc[p] = "done"
          /\ call[p].op = "get_all_unhandled"
          /\ result[p].kind = "return" )
        => \A r \in result[p].value : r.handled = FALSE

(* C8: get_error and set_handled on an id no record was created with       *)
(* return None.                                                            *)
C8_UnknownIdReturnsNone ==
    \A p \in Procs :
        ( /\ pc[p] = "done"
          /\ call[p].op \in {"get_error", "set_handled"}
          /\ call[p].record_id \notin StoredIds )
        => result[p] = Return(None)

(* C9: when hook.send fails after the store was written, the call still    *)
(* returns its record and the store is as the write left it.               *)
C9_NotificationFailureInvisible ==
    [][\A p \in Procs :
         (pc[p] = "hook.send" /\ pc'[p] = "done")
         => /\ result'[p] = Return(local[p].ret)
            /\ UNCHANGED <<pgVars, rdVars>>
      ]_vars

(* C10: the record a put_error hit returns has the occurrences, messages   *)
(* and handled flag the backend held right after the add-occurrence.       *)
C10_HitReturnsUpdatedRecord ==
    \A p \in Procs :
        ( /\ pc[p] = "done"
          /\ call[p].op = "put_error"
          /\ result[p].kind = "return"
          /\ local[p].exists # None )
        => /\ result[p].value.occurrences = local[p].stored.occurrences
           /\ result[p].value.messages = local[p].stored.messages
           /\ result[p].value.handled = local[p].stored.handled
           /\ result[p].value.handled = FALSE

(* C12: one store instance never creates more than one connection, and on  *)
(* postgres no query is waiting on a database the schema was not applied   *)
(* to.                                                                     *)
C12_LazyConnectRaceSafe ==
    /\ connsMade <= 1
    /\ backend = "postgres" => \A p \in Procs : pc[p] \in PgPcs => tableExists

(* The add-occurrences completed on record i. *)
Recurrences(i) == IF i \in DOMAIN recurrences THEN recurrences[i] ELSE 0

(* The add-occurrences on record i that have incremented the counter and   *)
(* are not complete yet (redis: between HINCRBY and the HSET of messages). *)
RecurrencesInFlight(i) ==
    Cardinality({ p \in Procs :
                    /\ backend = "redis"
                    /\ pc[p] \in {"hget_messages", "hset_messages"}
                    /\ local[p].exists.id = i })

(* C13: on both backends and in any interleaving of put_error calls, a     *)
(* record is created with occurrences = 1, its occurrences never decrease, *)
(* and they equal 1 + the add-occurrences completed on it + those that     *)
(* have incremented and are not complete yet; so with n recurrences        *)
(* complete and none in progress, exactly 1 + n.                           *)
C13_OccurrencesCountRecurrences ==
    [][ /\ \A i \in StoredIds' :
              (StoredRecord(i).occurrences)'
                 = 1 + Recurrences(i)' + RecurrencesInFlight(i)'
        /\ \A i \in StoredIds' \ StoredIds :
              (StoredRecord(i).occurrences)' = 1
        /\ \A i \in StoredIds :
              /\ i \in StoredIds'
              /\ (StoredRecord(i).occurrences)' >= StoredRecord(i).occurrences
      ]_vars

(* C13 happens: on redis two recurrences of one record ran interleaved     *)
(* (one of their messages was lost) and both are complete.                 *)
C13_Witness ==
    /\ backend = "redis"
    /\ \A p \in Procs : pc[p] = "done" /\ call[p].op = "put_error"
    /\ \E i \in StoredIds :
          /\ \A p \in Procs : local[p].exists # None /\ local[p].exists.id = i
          /\ Recurrences(i) = 2
          /\ StoredRecord(i).occurrences = 3
          /\ Len(StoredRecord(i).messages) = 2

(* The id the backend assigned to the record p's put_error is creating. *)
IdOf(p) == IF local[p].record # None THEN local[p].record.id ELSE NoId

(* The ids assigned so far: those of the stored records and those of the   *)
(* creations in progress (no record is removed, see the formula).          *)
AssignedIds == StoredIds \cup { IdOf(p) : p \in { q \in Procs : IdOf(q) # NoId } }

(* C14: on both backends and in any interleaving of put_error calls: the   *)
(* id a creation is assigned (creation order is the order in which the     *)
(* backend assigns) is greater than every id assigned before, so ids are   *)
(* pairwise distinct and never reused; a record is stored under the id     *)
(* assigned to the call that created it, carries it, and keeps it.         *)
C14_IdsUniqueIncreasing ==
    [][ /\ \A p \in Procs :
              (IdOf(p) = NoId /\ IdOf(p)' # NoId)
              => \A j \in AssignedIds : j < IdOf(p)'
        /\ \A i \in StoredIds' \ StoredIds :
              /\ (StoredRecord(i).id)' = i
              /\ \E p \in Procs : call[p].op = "put_error" /\ IdOf(p)' = i
        /\ \A i \in StoredIds :
              /\ i \in StoredIds'
              /\ (StoredRecord(i).id)' = i
      ]_vars

(* C14 happens: two creations interleave on redis, the one assigned the    *)
(* greater id has stored its record, the other has not yet.                *)
C14_Witness ==
    /\ backend = "redis"
    /\ \E p, q \in Procs :
          /\ IdOf(p) # NoId /\ IdOf(q) # NoId
          /\ IdOf(p) < IdOf(q)
          /\ IdOf(q) \in StoredIds
          /\ IdOf(p) \notin StoredIds

(* C15: a put_error call creates or updates, never both and never part of *)
(* either: the step that makes a record visible to the other calls makes   *)
(* it visible with its two index keys (redis) and as a listed unhandled    *)
(* record; a step that changes the occurrences of a record changes the     *)
(* number of its messages by as much; and a call that returns either hit   *)
(* and created nothing or missed and created its record.                   *)
C15_PutErrorLeavesNoPartialState ==
    [][ /\ \A i \in StoredIds' \ StoredIds :
              /\ (i \in ListedIds)'
              /\ backend = "redis" =>
                    /\ (PutKeyFunction(StoredRecord(i)) \in DOMAIN rdKeys)'
                    /\ (PutKeyArgs(StoredRecord(i)) \in DOMAIN rdKeys)'
        /\ \A i \in StoredIds \cap StoredIds' :
              (StoredRecord(i).occurrences)' - StoredRecord(i).occurrences
                = Len((StoredRecord(i).messages)') - Len(StoredRecord(i).messages)
        /\ \A p \in Procs :
              PutErrorReturns(p) =>
                IF local'[p].exists # None
                THEN IdOf(p)' = NoId
                ELSE IdOf(p)' \in StoredIds'
      ]_vars

(* C16: with a notification sink configured, a set_handled that ends has   *)
(* handed one handled-state notification (for its id and state) to the     *)
(* sink if the id is that of a stored record, and none otherwise.          *)
C16_HandledNotification ==
    [][\A p \in Procs :
         (hook /\ Completes(p) /\ call[p].op = "set_handled") =>
           IF call[p].record_id \in StoredIds
           THEN local'[p].sent = PutHandledText(StoredRecord(call[p].record_id),
                                                call[p].state)
           ELSE local'[p].sent = None
      ]_vars

(* The fields of a record that are set at creation only. *)
CreationFields(r) ==
    <<r.stack, r.frames, r.args, r.occurred_at, r.tracking_filename,
      r.tracking_function>>

(* Task p takes this step. *)
Moves(p) == <<pc[p], call[p], local[p], result[p]>>' # <<pc[p], call[p], local[p], result[p]>>

(* C17: on both backends and in any interleaving: no step removes a stored *)
(* record or changes its stack, frames, args, occurred_at,                 *)
(* tracking_filename or tracking_function; a step of get_error or          *)
(* get_all_unhandled changes nothing stored; a step of set_handled changes *)
(* of the stored records only the handled flag of the one it names (and    *)
(* the unhandled set), a step of put_error changes of the stored records   *)
(* only occurrences, messages and handled of the one it resolved to.       *)
C17_CreationFieldsImmutable ==
    [][ /\ \A i \in StoredIds :
              /\ i \in StoredIds'
              /\ CreationFields(StoredRecord(i))' = CreationFields(StoredRecord(i))
        /\ \A p \in Procs :
              Moves(p) =>
                /\ call'[p].op \in {"get_error", "get_all_unhandled"}
                     => UNCHANGED <<pgRows, pgSeq, rdVars>>
                /\ call'[p].op = "set_handled"
                     => /\ UNCHANGED <<pgSeq, rdKeys, rdNextId>>
                        /\ \A i \in StoredIds :
                              /\ (StoredRecord(i).occurrences)' = StoredRecord(i).occurrences
                              /\ (StoredRecord(i).messages)' = StoredRecord(i).messages
                              /\ i # call'[p].record_id
                                   => (StoredRecord(i))' = StoredRecord(i)
                /\ call'[p].op = "put_error"
                     => \A i \in StoredIds :
                          (local'[p].exists = None \/ local'[p].exists.id # i)
                          => (StoredRecord(i))' = StoredRecord(i)
      ]_vars

(* C17 happens: a stored record has been through an add-occurrence by a    *)
(* later call, whose message it holds next to the first one.               *)
C17_Witness ==
    \E i \in StoredIds :
        /\ StoredRecord(i).occurrences = 2
        /\ Len(StoredRecord(i).messages) = 2
        /\ StoredRecord(i).occurred_at = StoredRecord(i).messages[1].id
        /\ StoredRecord(i).messages[2].id > StoredRecord(i).occurred_at

(* p's put_error ends in this step and its lookup had found no record. *)
MissCompletes(p) ==
    Completes(p) /\ call[p].op = "put_error" /\ local'[p].exists = None

(* C18: when a put_error whose lookup found no record ends, the store      *)
(* holds exactly one record first seen with the call's message, under the  *)
(* id the backend assigned to the call, with occurrences = 1, handled =    *)
(* false and the serialized triggering message as its only message; the    *)
(* record is listed as unhandled, and the record the call returns carries  *)
(* that id.                                                                *)
C18_MissCreatesRecord ==
    [][\A p \in Procs :
         MissCompletes(p) =>
           /\ IdOf(p)' # NoId
           /\ (IdOf(p) \in StoredIds)'
           /\ (StoredRecord(IdOf(p)).id = IdOf(p))'
           /\ (StoredRecord(IdOf(p)).occurrences)' = 1
           /\ (StoredRecord(IdOf(p)).handled)' = FALSE
           /\ (StoredRecord(IdOf(p)).messages)'
                = <<_serialize_message(CtxMessage(call[p]))>>
           /\ (IdOf(p) \in ListedIds)'
           /\ { i \in StoredIds' : (StoredRecord(i).occurred_at)' = call[p].message }
                = {IdOf(p)'}
           /\ result'[p].kind = "return" => result'[p].value.id = IdOf(p)'
      ]_vars

(* C19: a put_error that misses the lookup ends with a record built: every *)
(* local of every frame is serialized to a value or a placeholder, and no  *)
(* exception of a serializer leaves the call.                              *)
C19_CaptureNeverThrows ==
    \A p \in Procs :
        (pc[p] = "done" /\ call[p].op = "put_error" /\ local[p].exists = None) =>
          /\ result[p] # Raise("SerializerError")
          /\ local[p].record # None
          /\ \A i \in DOMAIN local[p].record.frames :
                \A j \in DOMAIN local[p].record.frames[i].scope :
                    local[p].record.frames[i].scope[j].value # Raised

(* Both wire encodings of record r read back give r; the strict one is    *)
(* made only of a record that has its id (RedisState._put, line 343).      *)
RoundTrips(r) ==
    /\ from_psql(ToDictLoose(r)) = r
    /\ r.id # NoId => from_json(ToDictStrict(r)) = r

(* The list stored in the messages field of the hash of record i. *)
RdStoredMessages(i) == _loads(Decode(rdHashes[i].messages))

(* C20: every record, built by a capture, read by a lookup or read from    *)
(* the store, is equal in every field to itself encoded by _to_dict and    *)
(* read back by from_psql (strict=False) and by from_json (strict=True);   *)
(* the copy the backend holds right after a creation is equal to the       *)
(* record created; and the copy redis holds right after _add_occurrence    *)
(* rewrote messages reads back as the record found, with the new message   *)
(* appended to its messages, and round-trips as well.                      *)
C20_RoundTrip ==
    /\ \A i \in StoredIds : RoundTrips(StoredRecord(i))
    /\ \A p \in Procs :
          /\ local[p].record # None => RoundTrips(local[p].record)
          /\ local[p].exists # None => RoundTrips(local[p].exists)
          /\ local[p].stored # None => RoundTrips(local[p].stored)
          /\ (local[p].record # None /\ local[p].stored # None)
                => local[p].stored = local[p].record
          /\ (backend = "redis" /\ call[p].op = "put_error"
                /\ local[p].exists # None /\ local[p].stored # None)
                => /\ local[p].stored.messages
                        = Append(local[p].exists.messages,
                                 _serialize_message(CtxMessage(call[p])))
                   /\ local[p].stored.id = local[p].exists.id
                   /\ CreationFields(local[p].stored)
                        = CreationFields(local[p].exists)

(* C20 happens: a redis record whose deepest frame has locals went through *)
(* _add_occurrence for a message with attachments; its messages field      *)
(* holds the first message as JSON text and the second as a dict, and the  *)
(* record read back has both as dicts.                                     *)
C20_Witness ==
    /\ backend = "redis"
    /\ \E p \in Procs :
          /\ pc[p] = "done" /\ call[p].op = "put_error"
          /\ local[p].exists # None /\ local[p].stored # None
          /\ call[p].attachments # NoAttachments
          /\ local[p].stored.id \in StoredIds
          /\ LET i == local[p].stored.id
                 r == StoredRecord(i)
             IN  /\ Len(RdStoredMessages(i)) = 2
                 /\ IsStr(RdStoredMessages(i)[1])
                 /\ ~IsStr(RdStoredMessages(i)[2])
                 /\ r = local[p].stored
                 /\ r.messages[2].attachments = None
                 /\ r.frames[Len(r.frames)].scope # <<>>

(* Stored record i has the file name and the function of the deepest      *)
(* frame of p's exception (the primary key), resp. the file name and the   *)
(* stringified args (the secondary key).                                   *)
MatchesFunction(p, i) ==
    /\ StoredRecord(i).tracking_filename = LastFrame(p).filename
    /\ StoredRecord(i).tracking_function = LastFrame(p).function

MatchesArgs(p, i) ==
    /\ StoredRecord(i).tracking_filename = LastFrame(p).filename
    /\ StoredRecord(i).args = StrArgs(call[p].error.args)

(* The lookup of p's put_error resolves to a record in this step. *)
Resolves(p) ==
    /\ call[p].op = "put_error"
    /\ local[p].exists = None
    /\ local'[p].exists # None

(* C21: on both backends, when the lookup of a put_error resolves while    *)
(* one stored record matches the exception by (filename, function) and a   *)
(* different stored record matches it by (filename, args) only, it         *)
(* resolves to the record matched by (filename, function).                 *)
C21_PrimaryKeyWins ==
    [][\A p \in Procs :
         Resolves(p) =>
           \A i, j \in StoredIds :
              ( /\ i # j
                /\ MatchesFunction(p, i)
                /\ MatchesArgs(p, j)
                /\ ~MatchesFunction(p, j) )
              => local'[p].exists.id = i
      ]_vars

(* The ids of the redis records whose _put is still between its HMSET and *)
(* its last SET.                                                           *)
RdBeingPut ==
    { local[p].record.id : p \in { q \in Procs : pc[q] \in {"sadd", "set_fnfn", "set_fnar"} } }

(* Every index key names a stored record that has the key's file name and  *)
(* function, or file name and args; every record whose _put is over is     *)
(* named by both of the index keys _put wrote for it.                      *)
RdIndexSound ==
    /\ \A k \in DOMAIN rdKeys :
          /\ Decode(rdKeys[k]) \in RdStoredIds
          /\ k \in { PutKeyFunction(StoredRecord(Decode(rdKeys[k]))),
                      PutKeyArgs(StoredRecord(Decode(rdKeys[k]))) }
    /\ \A i \in RdStoredIds \ RdBeingPut :
          /\ PutKeyFunction(StoredRecord(i)) \in DOMAIN rdKeys
          /\ Decode(rdKeys[PutKeyFunction(StoredRecord(i))]) = i
          /\ PutKeyArgs(StoredRecord(i)) \in DOMAIN rdKeys
          /\ Decode(rdKeys[PutKeyArgs(StoredRecord(i))]) = i

(* C22: on redis no step changes the value of an index key that is set,    *)
(* and after every step each index key names an existing record with the   *)
(* key's file name and function (or args) and each created record is named *)
(* by both of its index keys.                                              *)
C22_IndexKeysWrittenOnce ==
    [][backend = "redis" =>
         /\ \A k \in DOMAIN rdKeys :
               k \in DOMAIN rdKeys' /\ rdKeys'[k] = rdKeys[k]
         /\ RdIndexSound'
      ]_vars

(* No call is between its first await and its end. *)
Quiescent == \A p \in Procs : ~Running(p)

(* The ids of the redis records whose handled flag is false. *)
RdUnhandledRecords == { i \in RdStoredIds : ~StoredRecord(i).handled }

(* C23: on redis, whenever no call is in progress, TAPTRACK_UNHANDLED      *)
(* holds exactly the ids of the stored records whose handled flag is       *)
(* false.                                                                  *)
C23_UnhandledSetMatchesFlags ==
    (backend = "redis" /\ Quiescent) => rdUnhandled = RdUnhandledRecords

(* Every record hash of redis holds every field from_json reads, and     *)
(* every member of TAPTRACK_UNHANDLED is the id of such a hash.            *)
RdStoreComplete ==
    /\ \A i \in DOMAIN rdHashes : ~FromJsonRaises(rdHashes[i])
    /\ rdUnhandled \subseteq RdStoredIds

(* The call ended with the KeyError of from_json. *)
RaisesKeyError(res) == res.kind = "raise" /\ res.value.exception = "KeyError"

(* C24: a step of get_error or set_handled on an id that no stored record  *)
(* has changes nothing in the store; after every step each redis record    *)
(* hash holds the complete field set and each id in the unhandled set is   *)
(* the id of a complete record; and no get_error or get_all_unhandled ends *)
(* with the KeyError of a record that cannot be decoded.                   *)
C24_UnknownIdLeavesStoreComplete ==
    [][/\ \A p \in Procs :
            /\ ( /\ Moves(p)
                 /\ call'[p].op \in {"get_error", "set_handled"}
                 /\ call'[p].record_id \notin StoredIds )
               => UNCHANGED <<pgRows, pgSeq, rdVars>>
            /\ ( /\ Completes(p)
                 /\ call[p].op \in {"get_error", "get_all_unhandled"} )
               => ~RaisesKeyError(result'[p])
       /\ backend = "redis" => RdStoreComplete'
      ]_vars

(* The two fingerprint keys of a record. *)
FunctionKey(r) == <<r.tracking_filename, r.tracking_function>>

ArgsKey(r) == <<r.tracking_filename, r.args>>

(* C25: in every reachable state no two stored records have the same       *)
(* (tracking_filename, tracking_function) and no two have the same         *)
(* (tracking_filename, args).                                              *)
C25_NoSharedFingerprintKey ==
    \A i, j \in StoredIds :
        i # j => /\ FunctionKey(StoredRecord(i)) # FunctionKey(StoredRecord(j))
                 /\ ArgsKey(StoredRecord(i)) # ArgsKey(StoredRecord(j))

=============================================================================
